---- MODULE Spec2Model ----
(***************************************************************************)
(* A model of two commands of natscli:                                     *)
(*   - `server generate` (src/cli/server_generate.go, generateAction) and  *)
(*     the scaffold engine it drives (internal/scaffold, Bundle.Run);      *)
(*   - `pub` / `request` (src/unnamed/part_000, pubCmd.publish, doReq).    *)
(* Strings are sequences of one-character strings, so that the source      *)
(* classification is computed on the characters as the code computes it.   *)
(***************************************************************************)
EXTENDS Integers, Sequences, FiniteSets, TLC

VARIABLES
    \* ---- server generate ----
    pc,          \* position in generateAction / Bundle.Run
    source,      \* c.source
    target,      \* c.target
    fs,          \* the filesystem: path -> node
    operators,   \* number of operators in the authority store
    overrides,   \* values the invoker supplies for bundle variables
    served,      \* what the source location holds: a bundle or a load error
    bundle,      \* b, the parsed bundle
    envArg,      \* the env map handed to b.Run
    env,         \* the environment of the renderer after the merge
    idx,         \* index of the entry the renderer is at
    written,     \* indexes of the entries written so far, in order
    err,         \* the error generateAction returns ("none" while running)
    stages,      \* pipeline stages executed so far, in order
    checks,      \* number of calls of FileExists(c.target)
    fetched,     \* "none", "file" (FromFile called) or "url" (FromUrl called)
    authQueried, \* whether the authority store has been queried
    prev,        \* outcome of an earlier engine run (two-run comparison)
    \* ---- pub / request ----
    ppc,         \* position in pubCmd.publish
    body,        \* c.body
    stdinBody,   \* what STDIN holds
    isTerm,      \* terminal.IsTerminal(stdout)
    req,         \* c.req
    cnt,         \* c.cnt
    hdrsOk,      \* whether c.hdrs parse as headers
    i,           \* the loop variable of publish
    data,        \* the body rendered in the current iteration
    published,   \* messages PublishMsg accepted, in order
    requests,    \* number of RequestMsg calls
    perr         \* the error publish returns ("none" while running)

genVars == <<pc, source, target, fs, operators, overrides, served, bundle, envArg,
             env, idx, written, err, stages, checks, fetched, authQueried, prev>>
pubVars == <<ppc, body, stdinBody, isTerm, req, cnt, hdrsOk, i, data, published,
             requests, perr>>
vars == <<genVars, pubVars>>

\* ------------------------------------------------------------------ bounds
MaxSrcLen == 6
MaxEntries == 2
MaxOperators == 1
MaxCount == 3

\* ------------------------------------------------------------- characters
Letters == {"a"}
SchemeExtra == {"1"}
Digits == {"1"}
Alphabet == Letters \cup SchemeExtra \cup {":", "/"}

RECURSIVE StringsUpTo(_)
StringsUpTo(n) ==
    IF n = 0 THEN {<<>>}
    ELSE LET shorter == StringsUpTo(n - 1)
         IN shorter \cup {Append(s, c) : s \in {t \in shorter : Len(t) = n - 1}, c \in Alphabet}

HasPrefix(s, p) == Len(s) >= Len(p) /\ SubSeq(s, 1, Len(p)) = p

\* strings.Contains
Contains(s, sub) ==
    \E k \in 1..(Len(s) - Len(sub) + 1) : SubSeq(s, k, k + Len(sub) - 1) = sub

\* strings.Index for a one-character needle, 0 when absent
IndexOf(s, c) ==
    IF \E k \in 1..Len(s) : s[k] = c
    THEN CHOOSE k \in 1..Len(s) : s[k] = c /\ \A j \in 1..(k - 1) : s[j] # c
    ELSE 0

\* strings.LastIndex for a one-character needle, 0 when absent
LastIndexOf(s, c) ==
    IF \E k \in 1..Len(s) : s[k] = c
    THEN CHOOSE k \in 1..Len(s) : s[k] = c /\ \A j \in (k + 1)..Len(s) : s[j] # c
    ELSE 0

SchemeSep == <<":", "/", "/">>

\* ------------------------------------------------------- net/url.Parse
\* getScheme: letters continue the scheme; a digit, + - . may not start one;
\* a colon at the start is an error; any other character means no scheme.
RECURSIVE ScanScheme(_, _)
ScanScheme(s, k) ==
    IF k > Len(s) THEN [err |-> FALSE, scheme |-> <<>>, rest |-> s]
    ELSE IF s[k] \in Letters THEN ScanScheme(s, k + 1)
    ELSE IF s[k] \in SchemeExtra
         THEN IF k = 1 THEN [err |-> FALSE, scheme |-> <<>>, rest |-> s]
              ELSE ScanScheme(s, k + 1)
    ELSE IF s[k] = ":"
         THEN IF k = 1 THEN [err |-> TRUE, scheme |-> <<>>, rest |-> s]
              ELSE [err |-> FALSE, scheme |-> SubSeq(s, 1, k - 1),
                    rest |-> SubSeq(s, k + 1, Len(s))]
    ELSE [err |-> FALSE, scheme |-> <<>>, rest |-> s]

GetScheme(s) == ScanScheme(s, 1)

\* validOptionalPort: "" or ":" followed by digits only
ValidOptionalPort(p) ==
    IF p = <<>> THEN TRUE ELSE p[1] = ":" /\ \A k \in 2..Len(p) : p[k] \in Digits

\* parseHost, for hosts without brackets: the text from the last colon on
\* must be a valid optional port
ParseHostOk(host) ==
    LET c == LastIndexOf(host, ":")
    IN IF c = 0 THEN TRUE ELSE ValidOptionalPort(SubSeq(host, c, Len(host)))

\* url.Parse on strings over Alphabet (no ? # % @ [ or control bytes):
\* [ok, scheme]
UrlParse(s) ==
    LET g == GetScheme(s)
        rest == g.rest
        slash == IndexOf(rest, "/")
        segment == IF slash = 0 THEN rest ELSE SubSeq(rest, 1, slash - 1)
        afterSlashes == SubSeq(rest, 3, Len(rest))
        aslash == IndexOf(afterSlashes, "/")
        authority == IF aslash = 0 THEN afterSlashes
                     ELSE SubSeq(afterSlashes, 1, aslash - 1)
    IN IF g.err THEN [ok |-> FALSE, scheme |-> <<>>]
       ELSE IF ~HasPrefix(rest, <<"/">>) /\ g.scheme # <<>>
            THEN [ok |-> TRUE, scheme |-> g.scheme]
       ELSE IF ~HasPrefix(rest, <<"/">>) /\ Contains(segment, <<":">>)
            THEN [ok |-> FALSE, scheme |-> <<>>]
       ELSE IF (g.scheme # <<>> \/ ~HasPrefix(rest, <<"/", "/", "/">>))
                /\ HasPrefix(rest, <<"/", "/">>)
                /\ ~ParseHostOk(authority)
            THEN [ok |-> FALSE, scheme |-> <<>>]
       ELSE [ok |-> TRUE, scheme |-> g.scheme]

\* strings.Contains(c.source, "://")
\* faulty variant: any colon makes the source remote
IsRemoteMut(s) == Contains(s, <<":">>)
IsRemote(s) == Contains(s, SchemeSep)

\* ------------------------------------------------------------ filesystem
Dir == <<"dir">>
File(d) == <<"file", d>>
EmptyMap == [k \in {} |-> <<>>]
EmptyFS == [p \in {} |-> Dir]

\* iu.FileExists: true for a file and for a directory
FileExists(f, p) == p \in DOMAIN f

IsDir(f, p) == p \in DOMAIN f /\ f[p] = Dir

\* os.MkdirAll below the target: every proper prefix of p becomes a directory
MkdirAll(f, p) ==
    LET parents == {SubSeq(p, 1, k) : k \in 1..(Len(p) - 1)}
    IN [q \in DOMAIN f \cup parents |-> IF q \in DOMAIN f THEN f[q] ELSE Dir]

WriteFile(f, p, d) ==
    [q \in DOMAIN f \cup {p} |-> IF q = p THEN File(d) ELSE f[q]]

\* the tree below directory t, with paths relative to t
RelTree(f, t) ==
    {<<SubSeq(p, 2, Len(p)), f[p]>> : p \in {q \in DOMAIN f : Len(q) > 1 /\ q[1] = t}}

\* ---------------------------------------------------------------- values
T1 == <<"t", "1">>
T2 == <<"t", "2">>
Targets == {T1, T2}
World == <<"w">>
Nats == <<"n">>
True == <<"T">>
False == <<"F">>
Evil == <<"x">>
Hello == <<"H", " ">>

Reserved == {"_target", "_source"}

Decl(n, d) == [name |-> n, hasDefault |-> TRUE, default |-> d]
Required(n) == [name |-> n, hasDefault |-> FALSE, default |-> <<>>]

VarDecls ==
    { <<>>,
      <<Decl("name", World)>>,
      <<Required("name")>>,
      <<Decl("name", World), Decl("flag", True)>>,
      <<Decl("name", World), Decl("flag", False)>>,
      <<Required("name"), Required("flag")>>,
      <<Decl("_target", Evil), Decl("name", World)>> }

Lit(d) == <<"lit", d>>
Var(n) == <<"var", n>>

Always(p, b) == [path |-> p, body |-> b, hasCond |-> FALSE, cond |-> ""]
When(c, p, b) == [path |-> p, body |-> b, hasCond |-> TRUE, cond |-> c]

ConfigEntry == Always(<<"config.txt">>, <<Lit(Hello), Var("name")>>)
FlagEntry == When("flag", <<"sub", "a.conf">>, <<Var("_target")>>)
BadEntry == Always(<<"bad.txt">>, <<Var("missing")>>)
SourceEntry == Always(<<"sub", "b.conf">>, <<Var("_source"), Lit(Hello)>>)

EntryPool == {ConfigEntry, FlagEntry, BadEntry, SourceEntry}

Range(s) == {s[k] : k \in 1..Len(s)}

\* entry lists: no path is declared twice (a bundle is a directory of templates)
RECURSIVE EntrySeqs(_)
EntrySeqs(n) ==
    IF n = 0 THEN {<<>>}
    ELSE LET shorter == EntrySeqs(n - 1)
         IN shorter \cup {Append(s, e) : s \in {t \in shorter : Len(t) = n - 1},
                                         e \in EntryPool}

DistinctPaths(es) == \A a, b \in 1..Len(es) : es[a].path = es[b].path => a = b

Declared(vs) == {vs[k].name : k \in 1..Len(vs)}

\* a condition refers to a declared variable
WellFormed(b) ==
    /\ DistinctPaths(b.entries)
    /\ \A k \in 1..Len(b.entries) :
          b.entries[k].hasCond => b.entries[k].cond \in Declared(b.variables)

NoBundle == [operator |-> FALSE, variables |-> <<>>, entries |-> <<>>]

Bundles ==
    {b \in [operator : BOOLEAN, variables : VarDecls, entries : EntrySeqs(MaxEntries)] :
        WellFormed(b)}

Overrides ==
    { EmptyMap,
      "name" :> Nats,
      "flag" :> False,
      ("name" :> Nats) @@ ("flag" :> True),
      "_target" :> Evil }

LoadErrors == {"SourceNotFound", "BundleParse"}

Loaded(b) == [error |-> "none", bundle |-> b]
LoadFailed(e) == [error |-> e, bundle |-> NoBundle]

\* ---------------------------------------------------- the scaffold engine
\* Environment Builder: explicit override, else the bundle default
\* faulty variant: the default wins over the override
ValueOfMut(d, ov) == IF d.hasDefault THEN d.default ELSE ov[d.name]
ValueOf(d, ov) == IF d.name \in DOMAIN ov THEN ov[d.name] ELSE d.default

\* a declared variable with neither an override nor a default
MissingVars(b, ov) ==
    {b.variables[k].name : k \in {j \in 1..Len(b.variables) :
        ~b.variables[j].hasDefault /\ b.variables[j].name \notin DOMAIN ov}}

DeclOf(b, n) == b.variables[CHOOSE k \in 1..Len(b.variables) : b.variables[k].name = n]

\* the reserved keys of the seed win over bundle variables of the same name
MergeEnv(seed, b, ov) ==
    seed @@ [n \in Declared(b.variables) |-> ValueOf(DeclOf(b, n), ov)]

\* an entry without a condition is always rendered
CondHolds(e, en) == IF e.hasCond THEN en[e.cond] = True ELSE TRUE

TokenDefined(t, en) == IF t[1] = "lit" THEN TRUE ELSE t[2] \in DOMAIN en

Renderable(b, en) == \A k \in 1..Len(b) : TokenDefined(b[k], en)

\* faulty variant: the output embeds the target path
RECURSIVE RenderMut(_, _)
RenderMut(b, en) ==
    IF b = <<>> THEN target
    ELSE (IF b[1][1] = "lit" THEN b[1][2] ELSE en[b[1][2]]) \o RenderMut(Tail(b), en)

\* substitution of the environment's values for the placeholders
RECURSIVE Render(_, _)
Render(b, en) ==
    IF b = <<>> THEN <<>>
    ELSE (IF b[1][1] = "lit" THEN b[1][2] ELSE en[b[1][2]]) \o Render(Tail(b), en)

\* ------------------------------------------------- server generate: steps
inputs == <<source, operators, overrides, served>>

Fail(e) == pc' = "done" /\ err' = e

Stage(s) == stages' = Append(stages, s)

\* line 43: a target that exists ends the run
\* faulty variant: the existing target is not noticed
CheckTargetMut ==
    /\ pc = "start"
    /\ checks' = checks + 1
    /\ Stage("check")
    /\ pc' = "resolve" /\ err' = err
    /\ UNCHANGED <<inputs, target, fs, bundle, envArg, env, idx, written, fetched,
                   authQueried, prev, pubVars>>
CheckTarget ==
    /\ pc = "start"
    /\ checks' = checks + 1
    /\ Stage("check")
    /\ IF FileExists(fs, <<target>>)
       THEN Fail("TargetExists")
       ELSE pc' = "resolve" /\ err' = err
    /\ UNCHANGED <<inputs, target, fs, bundle, envArg, env, idx, written, fetched,
                   authQueried, prev, pubVars>>

\* lines 58-64: scaffold.FromUrl / scaffold.FromFile give the bundle at the
\* source, or an error that ends the run
\* faulty variant: the load error is recorded but the run goes on
LoadMut(how) ==
    /\ fetched' = how
    /\ bundle' = served.bundle /\ pc' = "validate" /\ err' = served.error
Load(how) ==
    /\ fetched' = how
    /\ IF served.error = "none"
       THEN bundle' = served.bundle /\ pc' = "validate" /\ err' = err
       ELSE bundle' = bundle /\ Fail(served.error)

\* lines 50-53: url.Parse fails
ResolveUrlParseError ==
    /\ pc = "resolve"
    /\ IsRemote(source)
    /\ ~UrlParse(source).ok
    /\ Stage("resolve")
    /\ Fail("UrlParse")
    /\ UNCHANGED <<inputs, target, fs, bundle, envArg, env, idx, written, checks,
                   fetched, authQueried, prev, pubVars>>

\* lines 54-56: the parsed URL has no scheme
ResolveInvalidURL ==
    /\ pc = "resolve"
    /\ IsRemote(source)
    /\ UrlParse(source).ok
    /\ UrlParse(source).scheme = <<>>
    /\ Stage("resolve")
    /\ Fail("InvalidURL")
    /\ UNCHANGED <<inputs, target, fs, bundle, envArg, env, idx, written, checks,
                   fetched, authQueried, prev, pubVars>>

\* line 58
ResolveFromUrl ==
    /\ pc = "resolve"
    /\ IsRemote(source)
    /\ UrlParse(source).ok
    /\ UrlParse(source).scheme # <<>>
    /\ Stage("resolve")
    /\ Load("url")
    /\ UNCHANGED <<inputs, target, fs, envArg, env, idx, written, checks,
                   authQueried, prev, pubVars>>

\* line 60
ResolveFromFile ==
    /\ pc = "resolve"
    /\ ~IsRemote(source)
    /\ Stage("resolve")
    /\ Load("file")
    /\ UNCHANGED <<inputs, target, fs, envArg, env, idx, written, checks,
                   authQueried, prev, pubVars>>

\* line 66, operator not required: nothing is queried
ValidateNothing ==
    /\ pc = "validate"
    /\ ~bundle.operator
    /\ Stage("validate")
    /\ pc' = "env"
    /\ UNCHANGED <<inputs, target, fs, bundle, envArg, env, idx, written, err, checks,
                   fetched, authQueried, prev, pubVars>>

\* lines 67-70: the authority store cannot be opened
ValidateAuthError ==
    /\ pc = "validate"
    /\ bundle.operator
    /\ Stage("validate")
    /\ authQueried' = "failed"
    /\ Fail("AuthBuilder")
    /\ UNCHANGED <<inputs, target, fs, bundle, envArg, env, idx, written, checks,
                   fetched, prev, pubVars>>

\* lines 71-73
\* faulty variant: the empty operator list is accepted
ValidateOperatorMut ==
    /\ pc = "validate"
    /\ bundle.operator
    /\ Stage("validate")
    /\ authQueried' = "listed"
    /\ pc' = "env" /\ err' = err
    /\ UNCHANGED <<inputs, target, fs, bundle, envArg, env, idx, written, checks,
                   fetched, prev, pubVars>>
ValidateOperator ==
    /\ pc = "validate"
    /\ bundle.operator
    /\ Stage("validate")
    /\ authQueried' = "listed"
    /\ IF operators = 0
       THEN Fail("NoOperator")
       ELSE pc' = "env" /\ err' = err
    /\ UNCHANGED <<inputs, target, fs, bundle, envArg, env, idx, written, checks,
                   fetched, prev, pubVars>>

\* lines 76-79: the map literal
\* faulty variant: the two values are swapped
SeedMut(t, s) == ("_target" :> s) @@ ("_source" :> t)
Seed(t, s) == ("_target" :> t) @@ ("_source" :> s)

\* lines 76-81: build env and call b.Run(c.target, env, trace)
SeedEnv ==
    /\ pc = "env"
    /\ Stage("env")
    /\ envArg' = Seed(target, source)
    /\ pc' = "run"
    /\ UNCHANGED <<inputs, target, fs, bundle, env, idx, written, err, checks,
                   fetched, authQueried, prev, pubVars>>

\* Bundle.Run, Environment Builder: a variable left unset ends the run
RunMissingVariable ==
    /\ pc = "run"
    /\ MissingVars(bundle, overrides) # {}
    /\ Fail("MissingVariable")
    /\ UNCHANGED <<inputs, target, fs, bundle, envArg, env, idx, written, stages,
                   checks, fetched, authQueried, prev, pubVars>>

\* Bundle.Run, Environment Builder: the merge
RunMerge ==
    /\ pc = "run"
    /\ MissingVars(bundle, overrides) = {}
    /\ env' = MergeEnv(envArg, bundle, overrides)
    /\ pc' = "mkdir"
    /\ UNCHANGED <<inputs, target, fs, bundle, envArg, idx, written, err, stages,
                   checks, fetched, authQueried, prev, pubVars>>

\* Bundle.Run, Renderer: create the target directory
RunMkdir ==
    /\ pc = "mkdir"
    /\ Stage("render")
    /\ fs' = [q \in DOMAIN fs \cup {<<target>>} |-> IF q = <<target>> THEN Dir ELSE fs[q]]
    /\ idx' = 1
    /\ pc' = "entries"
    /\ UNCHANGED <<inputs, target, bundle, envArg, env, written, err, checks,
                   fetched, authQueried, prev, pubVars>>

AtEntry == pc = "entries" /\ idx <= Len(bundle.entries)

\* the entry's relative path resolved under the target
EntryPath(e) == <<target>> \o e.path

\* Renderer step 1: a false condition skips the entry
\* faulty variant: the skipped entry still gets its parent directories
EntrySkipMut ==
    /\ AtEntry
    /\ ~CondHolds(bundle.entries[idx], env)
    /\ fs' = MkdirAll(fs, EntryPath(bundle.entries[idx]))
    /\ idx' = idx + 1
    /\ UNCHANGED <<inputs, pc, target, bundle, envArg, env, written, err, stages,
                   checks, fetched, authQueried, prev, pubVars>>
EntrySkip ==
    /\ AtEntry
    /\ ~CondHolds(bundle.entries[idx], env)
    /\ idx' = idx + 1
    /\ UNCHANGED <<inputs, pc, target, fs, bundle, envArg, env, written, err, stages,
                   checks, fetched, authQueried, prev, pubVars>>

\* Renderer step 2: an undefined placeholder ends the run, nothing is undone
\* faulty variant: the error is recorded and the next entry is rendered
EntryRenderErrorMut ==
    /\ AtEntry
    /\ CondHolds(bundle.entries[idx], env)
    /\ ~Renderable(bundle.entries[idx].body, env)
    /\ err' = "Render"
    /\ idx' = idx + 1
    /\ UNCHANGED <<inputs, pc, target, fs, bundle, envArg, env, written, stages,
                   checks, fetched, authQueried, prev, pubVars>>
EntryRenderError ==
    /\ AtEntry
    /\ CondHolds(bundle.entries[idx], env)
    /\ ~Renderable(bundle.entries[idx].body, env)
    /\ Fail("Render")
    /\ UNCHANGED <<inputs, target, fs, bundle, envArg, env, idx, written, stages,
                   checks, fetched, authQueried, prev, pubVars>>

\* Renderer steps 2-4: render, create the parents, write the file
EntryWrite ==
    /\ AtEntry
    /\ CondHolds(bundle.entries[idx], env)
    /\ Renderable(bundle.entries[idx].body, env)
    /\ fs' = WriteFile(MkdirAll(fs, EntryPath(bundle.entries[idx])),
                       EntryPath(bundle.entries[idx]),
                       Render(bundle.entries[idx].body, env))
    /\ written' = Append(written, idx)
    /\ idx' = idx + 1
    /\ UNCHANGED <<inputs, pc, target, bundle, envArg, env, err, stages,
                   checks, fetched, authQueried, prev, pubVars>>

\* every entry handled: Run returns nil, line 86
RunFinish ==
    /\ pc = "entries"
    /\ idx > Len(bundle.entries)
    /\ pc' = "done"
    /\ UNCHANGED <<inputs, target, fs, bundle, envArg, env, idx, written, err, stages,
                   checks, fetched, authQueried, prev, pubVars>>

NoPrev == [set |-> FALSE, target |-> <<>>, err |-> "none", tree |-> {}]

\* a second run of the engine: same bundle, same environment, another fresh target
RunAgain ==
    /\ pc = "done"
    /\ ~prev.set
    /\ prev' = [set |-> TRUE, target |-> target, err |-> err, tree |-> RelTree(fs, target)]
    /\ \E t \in Targets :
          /\ t # target
          /\ ~FileExists(fs, <<t>>)
          /\ target' = t
    /\ pc' = "run"
    /\ err' = "none"
    /\ env' = EmptyMap
    /\ idx' = 0
    /\ written' = <<>>
    /\ UNCHANGED <<inputs, fs, bundle, envArg, stages, checks, fetched, authQueried,
                   pubVars>>

\* ------------------------------------------------------- pub / request
NilBody == <<"!nil!">>
Times == {0, 1}

PubBodies ==
    { NilBody, <<"lit">>, <<"lit", "Cnt">>, <<"Cnt", "Time">>, <<"Cnt", "Bad">>,
      <<"Malformed">> }

\* template.Parse fails on a malformed action
ParseOk(b) == "Malformed" \notin Range(b)

\* t.Execute fails on a field pubData does not have
ExecOk(b) == "Bad" \notin Range(b)

ExecToken(t, n, now) ==
    IF t = "Cnt" THEN <<"cnt", n>>
    ELSE IF t = "Time" THEN <<"time", now>>
    ELSE <<t, 0>>

\* t.Execute with pubData{Cnt: n, Time: now, ...}
Exec(b, n, now) == [k \in 1..Len(b) |-> ExecToken(b[k], n, now)]

PubFail(e) == ppc' = "done" /\ perr' = e

\* lines 126-129
PubConnectError ==
    /\ ppc = "connect"
    /\ PubFail("connect")
    /\ UNCHANGED <<genVars, body, stdinBody, isTerm, req, cnt, hdrsOk, i, data,
                   published, requests>>

PubConnect ==
    /\ ppc = "connect"
    /\ ppc' = "stdin"
    /\ UNCHANGED <<genVars, body, stdinBody, isTerm, req, cnt, hdrsOk, i, data,
                   published, requests, perr>>

\* lines 132-139
PubReadStdinError ==
    /\ ppc = "stdin"
    /\ body = NilBody /\ isTerm
    /\ PubFail("stdin")
    /\ UNCHANGED <<genVars, body, stdinBody, isTerm, req, cnt, hdrsOk, i, data,
                   published, requests>>

PubReadStdin ==
    /\ ppc = "stdin"
    /\ body = NilBody /\ isTerm
    /\ body' = stdinBody
    /\ ppc' = "mode"
    /\ UNCHANGED <<genVars, stdinBody, isTerm, req, cnt, hdrsOk, i, data,
                   published, requests, perr>>

PubNoStdin ==
    /\ ppc = "stdin"
    /\ ~(body = NilBody /\ isTerm)
    /\ ppc' = "mode"
    /\ UNCHANGED <<genVars, body, stdinBody, isTerm, req, cnt, hdrsOk, i, data,
                   published, requests, perr>>

\* lines 141-142 and doReq lines 90-93: the headers do not parse
PubReqHeaderError ==
    /\ ppc = "mode"
    /\ req
    /\ ~hdrsOk
    /\ PubFail("header")
    /\ UNCHANGED <<genVars, body, stdinBody, isTerm, req, cnt, hdrsOk, i, data,
                   published, requests>>

\* doReq lines 95-98: one RequestMsg, which answers or fails
PubRequest ==
    /\ ppc = "mode"
    /\ req
    /\ hdrsOk
    /\ requests' = requests + 1
    /\ ppc' = "done"
    /\ perr' \in {"none", "request"}
    /\ UNCHANGED <<genVars, body, stdinBody, isTerm, req, cnt, hdrsOk, i, data,
                   published>>

\* lines 153-156
PubParseError ==
    /\ ppc = "mode"
    /\ ~req
    /\ ~ParseOk(body)
    /\ PubFail("parse")
    /\ UNCHANGED <<genVars, body, stdinBody, isTerm, req, cnt, hdrsOk, i, data,
                   published, requests>>

\* lines 158-160
\* faulty variant: the count is not clamped
ClampMut(n) == n
Clamp(n) == IF n < 1 THEN 1 ELSE n

\* lines 153-162: parse, clamp the count, enter the loop
PubParse ==
    /\ ppc = "mode"
    /\ ~req
    /\ ParseOk(body)
    /\ cnt' = Clamp(cnt)
    /\ i' = 1
    /\ ppc' = "loop"
    /\ UNCHANGED <<genVars, body, stdinBody, isTerm, req, hdrsOk, data,
                   published, requests, perr>>

\* line 162, i <= c.cnt fails: return nil
PubLoopExit ==
    /\ ppc = "loop"
    /\ ~(i <= cnt)
    /\ ppc' = "done"
    /\ UNCHANGED <<genVars, body, stdinBody, isTerm, req, cnt, hdrsOk, i, data,
                   published, requests, perr>>

\* lines 165-174
PubExecuteError ==
    /\ ppc = "loop"
    /\ i <= cnt
    /\ ~ExecOk(body)
    /\ PubFail("execute")
    /\ UNCHANGED <<genVars, body, stdinBody, isTerm, req, cnt, hdrsOk, i, data,
                   published, requests>>

PubExecute ==
    /\ ppc = "loop"
    /\ i <= cnt
    /\ ExecOk(body)
    /\ \E now \in Times : data' = Exec(body, i, now)
    /\ ppc' = "prepare"
    /\ UNCHANGED <<genVars, body, stdinBody, isTerm, req, cnt, hdrsOk, i,
                   published, requests, perr>>

\* lines 176-179
PubPrepareError ==
    /\ ppc = "prepare"
    /\ ~hdrsOk
    /\ PubFail("header")
    /\ UNCHANGED <<genVars, body, stdinBody, isTerm, req, cnt, hdrsOk, i, data,
                   published, requests>>

\* lines 181-184
PubPublishError ==
    /\ ppc = "prepare"
    /\ hdrsOk
    /\ PubFail("publish")
    /\ UNCHANGED <<genVars, body, stdinBody, isTerm, req, cnt, hdrsOk, i, data,
                   published, requests>>

\* lines 176-185: the message is handed to the connection and flushed
PubPublish ==
    /\ ppc = "prepare"
    /\ hdrsOk
    /\ published' = Append(published, [cnt |-> i, data |-> data])
    /\ ppc' = "flushed"
    /\ UNCHANGED <<genVars, body, stdinBody, isTerm, req, cnt, hdrsOk, i, data,
                   requests, perr>>

\* lines 187-190: the connection reports an error after the flush
PubLastError ==
    /\ ppc = "flushed"
    /\ PubFail("lasterror")
    /\ UNCHANGED <<genVars, body, stdinBody, isTerm, req, cnt, hdrsOk, i, data,
                   published, requests>>

\* lines 187-193 and 162, i++
PubNext ==
    /\ ppc = "flushed"
    /\ i' = i + 1
    /\ ppc' = "loop"
    /\ UNCHANGED <<genVars, body, stdinBody, isTerm, req, cnt, hdrsOk, data,
                   published, requests, perr>>

\* --------------------------------------------------------- specifications
LocalSource == <<"a">>
UrlSource == <<"a", ":", "/", "/", "a">>
BareSource == <<":", "/", "/", "a">>
PathSource == <<"/", ":", "/", "/">>
SampleSources == {LocalSource, UrlSource, BareSource, PathSource}
AllSources == StringsUpTo(MaxSrcLen)

Served == {Loaded(b) : b \in Bundles} \cup {LoadFailed(e) : e \in LoadErrors}

\* the source classification alone: one bundle that loads, one that does not
CoverWorlds ==
    { <<Loaded([operator |-> FALSE,
                variables |-> <<Decl("name", World)>>,
                entries |-> <<ConfigEntry>>]), EmptyMap>>,
      <<LoadFailed("SourceNotFound"), EmptyMap>> }

StartFS ==
    { EmptyFS,
      <<T1>> :> Dir,
      <<T1>> :> File(World),
      (<<T2>> :> Dir) @@ (<<T2, "old">> :> File(World)) }

GenIdle ==
    /\ pc = "idle" /\ source = <<>> /\ target = T1 /\ fs = EmptyFS /\ operators = 0
    /\ overrides = EmptyMap /\ served = LoadFailed("SourceNotFound")
    /\ bundle = NoBundle /\ envArg = EmptyMap /\ env = EmptyMap /\ idx = 0
    /\ written = <<>> /\ err = "none" /\ stages = <<>> /\ checks = 0
    /\ fetched = "none" /\ authQueried = "no" /\ prev = NoPrev

PubIdle ==
    /\ ppc = "idle" /\ body = NilBody /\ stdinBody = NilBody /\ isTerm = FALSE
    /\ req = FALSE /\ cnt = 1 /\ hdrsOk = TRUE /\ i = 0 /\ data = <<>>
    /\ published = <<>> /\ requests = 0 /\ perr = "none"

GenStart(srcs, worlds, fss) ==
    /\ pc = "start"
    /\ source \in srcs
    /\ target = T1
    /\ fs \in fss
    /\ operators \in 0..MaxOperators
    /\ \E w \in worlds : served = w[1] /\ overrides = w[2]
    /\ bundle = NoBundle /\ envArg = EmptyMap /\ env = EmptyMap /\ idx = 0
    /\ written = <<>> /\ err = "none" /\ stages = <<>> /\ checks = 0
    /\ fetched = "none" /\ authQueried = "no" /\ prev = NoPrev

Init == GenStart(SampleSources, Served \X Overrides, StartFS) /\ PubIdle

InitSource == GenStart(AllSources, CoverWorlds, {EmptyFS}) /\ PubIdle

\* the engine alone: Bundle.Run called with some environment
RunEnvs ==
    {Seed(t, s) : t \in {T1, Evil}, s \in {LocalSource}}

InitTwin ==
    /\ pc = "run"
    /\ source = LocalSource
    /\ target = T1
    /\ fs = EmptyFS
    /\ operators = 0
    /\ overrides \in Overrides
    /\ bundle \in Bundles
    /\ served = Loaded(bundle)
    /\ envArg \in RunEnvs
    /\ env = EmptyMap /\ idx = 0 /\ written = <<>> /\ err = "none"
    /\ stages = <<>> /\ checks = 0 /\ fetched = "none" /\ authQueried = "no"
    /\ prev = NoPrev
    /\ PubIdle

InitPub ==
    /\ GenIdle
    /\ ppc = "connect"
    /\ body \in PubBodies
    /\ stdinBody \in {<<"lit", "Cnt">>, <<"Malformed">>}
    /\ isTerm \in BOOLEAN
    /\ req \in BOOLEAN
    /\ cnt \in (-1)..MaxCount
    /\ hdrsOk \in BOOLEAN
    /\ i = 0 /\ data = <<>> /\ published = <<>> /\ requests = 0 /\ perr = "none"

Engine ==
    \/ RunMissingVariable
    \/ RunMerge
    \/ RunMkdir
    \/ EntrySkip
    \/ EntryRenderError
    \/ EntryWrite
    \/ RunFinish

Resolver ==
    \/ CheckTarget
    \/ ResolveUrlParseError
    \/ ResolveInvalidURL
    \/ ResolveFromUrl
    \/ ResolveFromFile

Next ==
    \/ Resolver
    \/ ValidateNothing
    \/ ValidateAuthError
    \/ ValidateOperator
    \/ SeedEnv
    \/ Engine

NextTwin == Engine \/ RunAgain

NextPub ==
    \/ PubConnectError
    \/ PubConnect
    \/ PubReadStdinError
    \/ PubReadStdin
    \/ PubNoStdin
    \/ PubReqHeaderError
    \/ PubRequest
    \/ PubParseError
    \/ PubParse
    \/ PubLoopExit
    \/ PubExecuteError
    \/ PubExecute
    \/ PubPrepareError
    \/ PubPublishError
    \/ PubPublish
    \/ PubLastError
    \/ PubNext

\* Spec: server generate on sample sources and every bundle of Bundles.
\* SpecSource: the resolver on every source string up to MaxSrcLen.
\* SpecTwin: the engine run twice on one filesystem.
\* SpecPub: pub / request.
Spec == Init /\ [][Next]_vars
SpecSource == InitSource /\ [][Resolver]_vars
SpecTwin == InitTwin /\ [][NextTwin]_vars
SpecPub == InitPub /\ [][NextPub]_vars

\* ------------------------------------------------------------ vocabulary
IsPrefix(a, b) == Len(a) <= Len(b) /\ SubSeq(b, 1, Len(a)) = a

Pipeline == <<"check", "resolve", "validate", "env", "render">>

Ran(s) == s \in Range(stages)

\* the environment has been merged by the engine
Merged == pc \in {"mkdir", "entries"} \/ (pc = "done" /\ Ran("render"))

\* every requirement check has completed successfully
Validated ==
    /\ Ran("validate")
    /\ err = "none"
    /\ bundle.operator => (authQueried = "listed" /\ operators > 0)

Under(f, t) == {p \in DOMAIN f : p[1] = t}

FilesUnder(f, t) == {p \in Under(f, t) : f[p][1] = "file"}

DirsUnder(f, t) == {p \in Under(f, t) : f[p] = Dir}

\* the entries whose condition is absent or true
Kept == {k \in 1..Len(bundle.entries) : CondHolds(bundle.entries[k], env)}

KeptPaths == {EntryPath(bundle.entries[k]) : k \in Kept}

\* the scheme syntax: a letter, then letters, digits, + - . up to the first colon
HasScheme(s) ==
    LET c == IndexOf(s, ":")
    IN /\ c > 1
       /\ s[1] \in Letters
       /\ \A j \in 2..(c - 1) : s[j] \in Letters \cup SchemeExtra

\* n = max(count, 1)
Wanted == IF cnt > 1 THEN cnt ELSE 1

\* ------------------------------------------------------------------ claims

\* C1: when the target path exists (file or directory) at invocation, the
\* first step ends the run with the target-exists error and leaves the
\* filesystem as it was; the source is not read or fetched, the authority
\* store is not queried, and nothing runs after the end.
C1_TargetExistsFails ==
    /\ [](err = "TargetExists" =>
            /\ pc = "done"
            /\ stages = <<"check">>
            /\ fetched = "none"
            /\ authQueried = "no"
            /\ written = <<>>)
    /\ [][/\ pc # "done"
          /\ (pc = "start" /\ FileExists(fs, <<target>>)) =>
                (err' = "TargetExists" /\ pc' = "done" /\ fs' = fs)]_vars

C1_Witness ==
    pc = "done" /\ err = "TargetExists" /\ fs = (<<T1>> :> File(World))

\* C2: a bundle that requires an operator, with an authority store listing
\* none, fails with "no operator found"; the renderer is not invoked and the
\* target and everything under it never exist; every step that changes the
\* filesystem starts after all requirement checks passed.
C2_NoWriteBeforeValidation ==
    /\ []((served.error = "none" /\ served.bundle.operator /\ operators = 0) =>
            /\ ~Ran("render")
            /\ envArg = EmptyMap
            /\ written = <<>>
            /\ authQueried = "listed" =>
                  (err = "NoOperator" /\ pc = "done" /\ Under(fs, target) = {}))
    /\ [][fs' # fs => Validated]_vars

C2_Witness ==
    /\ pc = "done" /\ err = "NoOperator" /\ operators = 0
    /\ bundle.operator /\ bundle.entries # <<>>

\* C3 (as stated): a source with "://" and no scheme fails with the 'invalid
\* URL' error; a source without "://" is read with FromFile; a source with
\* "://" and a scheme is fetched with FromUrl.
C3_Original ==
    Ran("resolve") =>
        /\ ~Contains(source, SchemeSep) => fetched = "file"
        /\ (Contains(source, SchemeSep) /\ ~HasScheme(source)) =>
              (fetched = "none" /\ err = "InvalidURL")
        /\ (Contains(source, SchemeSep) /\ HasScheme(source)) => fetched = "url"

\* C3 (amended): a source with "://" and no scheme fails, with the error of
\* url.Parse or with the 'invalid URL' error, and is never fetched (a leading
\* colon, as in "://foo", gives the url.Parse error); a source without "://"
\* is read with FromFile; a source with "://" and a scheme is fetched with
\* FromUrl when url.Parse accepts it and fails with its error otherwise.
C3_SourceClassification ==
    Ran("resolve") =>
        /\ ~Contains(source, SchemeSep) => fetched = "file"
        /\ (Contains(source, SchemeSep) /\ ~HasScheme(source)) =>
              (fetched = "none" /\ pc = "done" /\ err \in {"UrlParse", "InvalidURL"})
        /\ (Contains(source, SchemeSep) /\ source[1] = ":") => err = "UrlParse"
        /\ (Contains(source, SchemeSep) /\ HasScheme(source)) =>
              IF UrlParse(source).ok
              THEN fetched = "url"
              ELSE fetched = "none" /\ pc = "done" /\ err = "UrlParse"

C3_Witness ==
    pc = "done" /\ source = BareSource /\ err = "UrlParse" /\ fetched = "none"

\* C4: the environment handed to the renderer holds _target, the target
\* path as given, and _source, the source string as given; after the merge
\* they still hold these values, whatever the bundle declares.
C4_ReservedKeys ==
    /\ Ran("env") =>
          /\ Reserved \subseteq DOMAIN envArg
          /\ envArg["_target"] = target
          /\ envArg["_source"] = source
    /\ Merged =>
          /\ Reserved \subseteq DOMAIN env
          /\ env["_target"] = target
          /\ env["_source"] = source

C4_Witness ==
    /\ pc = "entries"
    /\ "_target" \in Declared(bundle.variables)
    /\ env["_target"] = target
    /\ written # <<>>

C6_MergePrecedence ==
    /\ Merged =>
          \A k \in 1..Len(bundle.variables) :
              LET d == bundle.variables[k]
              IN /\ d.name \in DOMAIN env
                 /\ d.name \in DOMAIN overrides \/ d.hasDefault
                 /\ d.name \notin Reserved =>
                       env[d.name] = IF d.name \in DOMAIN overrides
                                     THEN overrides[d.name]
                                     ELSE d.default
    /\ err = "MissingVariable" =>
          (pc = "done" /\ written = <<>> /\ Under(fs, target) = {})
    /\ (Ran("env") /\ pc # "run"
          /\ \E k \in 1..Len(bundle.variables) :
                /\ ~bundle.variables[k].hasDefault
                /\ bundle.variables[k].name \notin DOMAIN overrides) =>
          err = "MissingVariable"
    /\ (written # <<>> \/ Ran("render")) => Merged

C6_Witness ==
    /\ pc = "done" /\ err = "none" /\ written # <<>>
    /\ "name" \in DOMAIN overrides
    /\ \E k \in 1..Len(bundle.variables) :
          bundle.variables[k].name = "name" /\ bundle.variables[k].hasDefault
    /\ env["name"] = Nats

C8_StageOrder ==
    /\ [](/\ IsPrefix(stages, Pipeline)
          /\ checks = (IF stages = <<>> THEN 0 ELSE 1)
          /\ err # "none" => pc = "done"
          /\ err = "TargetExists" => Len(stages) = 1
          /\ err \in {"UrlParse", "InvalidURL"} \cup LoadErrors => Len(stages) = 2
          /\ err \in {"AuthBuilder", "NoOperator"} => Len(stages) = 3
          /\ err = "MissingVariable" => Len(stages) = 4
          /\ err = "Render" => Len(stages) = 5)
    /\ [][pc # "done" /\ IsPrefix(stages, stages') /\ checks' >= checks]_vars

C8_Witness ==
    pc = "done" /\ err = "none" /\ stages = Pipeline /\ checks = 1

\* C9: entries are handled in declaration order; a failure at entry k ends
\* the run at once with an error: no entry from k on has a file, and what
\* the entries before k wrote is still there.
C9_AbortNoRollback ==
    /\ \A a, b \in 1..Len(written) : a < b => written[a] < written[b]
    /\ \A a \in 1..Len(written) : written[a] < idx
    /\ err # "none" => pc = "done"
    /\ err = "Render" =>
          /\ IsDir(fs, <<target>>)
          /\ \A k \in 1..(idx - 1) : k \in Range(written) \/ k \notin Kept
          /\ \A k \in Range(written) :
                fs[EntryPath(bundle.entries[k])]
                    = File(Render(bundle.entries[k].body, env))
          /\ \A k \in idx..Len(bundle.entries) :
                ~FileExists(fs, EntryPath(bundle.entries[k]))

C9_Witness ==
    pc = "done" /\ err = "Render" /\ written # <<>> /\ idx = 2

\* C10 (as stated): outside request mode all n messages are published exactly
\* when no error occurs; in request mode exactly one request is sent.
C10_Original ==
    ppc = "done" =>
        IF req THEN requests = 1
        ELSE (Len(published) = Wanted) <=> (perr = "none")

\* C10 (amended): outside request mode the published messages are rendered
\* with Cnt = 1, 2, ... in order, at most n of them; no error means all n
\* were published; an error ends the command, and leaves fewer than n
\* published unless it is the connection error reported after a publish. In
\* request mode at most one request is sent, and exactly one unless
\* connecting, reading the body or preparing the headers fails.
C10_PublishCount ==
    /\ perr # "none" => ppc = "done"
    /\ ~req =>
          /\ requests = 0
          /\ Len(published) <= Wanted
          /\ \A k \in 1..Len(published) :
                /\ published[k].cnt = k
                /\ \E now \in Times : published[k].data = Exec(body, k, now)
          /\ (ppc = "done" /\ perr = "none") => Len(published) = Wanted
          /\ (ppc = "done" /\ perr \notin {"none", "lasterror"}) =>
                Len(published) < Wanted
    /\ req =>
          /\ published = <<>>
          /\ requests <= 1
          /\ (ppc = "done" /\ perr \in {"none", "request"}) => requests = 1
          /\ perr \in {"connect", "stdin", "header"} => requests = 0

C10_Witness ==
    /\ ppc = "done" /\ ~req /\ perr = "lasterror"
    /\ Len(published) = Wanted /\ Wanted > 1
====
